---- MODULE Spec2Model ----
(***************************************************************************)
(* Task Management API: the task table, the pydantic request models with   *)
(* their validators (models.py), the persistence operations (crud.py), the *)
(* request handlers (main.py) and the per-request session (database.py).   *)
(*                                                                         *)
(* A Python value that may be None is modelled as a sequence: <<>> is None *)
(* and <<v>> is the value v.  A title is a sequence of characters.         *)
(***************************************************************************)
EXTENDS Integers, Sequences, FiniteSets, TLC

VARIABLES
    store,      \* the task table: rowid -> row
    now,        \* datetime.now()
    last,       \* a summary of the last request and its response
    deleted,    \* history: the ids whose DELETE has succeeded
    focus,      \* the input fields the requests of this behaviour carry
    sess,       \* the sessions of the requests in flight
    commits     \* history: the requests in flight, in the order they committed

vars == <<store, now, last, deleted, focus, sess, commits>>

\* ------------------------------------------------------------------ bounds

\* The table holds at most MaxTasks rows at a time.
MaxTasks == 2
\* The clock runs from 0 to MaxTime.
MaxTime == 1

\* ------------------------------------------------------------------ values

None == <<>>

Some(v) == <<v>>

Whitespace == {" ", "\t"}

\* models.py: class TaskStatus
TaskStatus == {"pending", "in_progress", "completed", "cancelled"}

\* models.py: class TaskPriority
TaskPriority == {"low", "medium", "high", "urgent"}

\* The fields of TaskCreate and TaskUpdate.
InputFields == {"title", "description", "status", "priority", "due_date", "assigned_to"}

\* The columns of the task table besides the primary key.
Columns == InputFields \cup {"created_at", "updated_at"}

\* A faulty variant: title declared Optional in class Task.
NotNullColumnsTitleOptional == {"status", "priority", "created_at"}

\* Columns whose annotation in class Task is not Optional: NOT NULL.
NotNullColumns == {"title", "status", "priority", "created_at"}

\* str.strip(): drop leading and trailing whitespace.
RECURSIVE lstrip(_)
lstrip(s) ==
    IF s = <<>> THEN <<>>
    ELSE IF Head(s) \in Whitespace THEN lstrip(Tail(s)) ELSE s

RECURSIVE rstrip(_)
rstrip(s) ==
    IF s = <<>> THEN <<>>
    ELSE IF s[Len(s)] \in Whitespace THEN rstrip(SubSeq(s, 1, Len(s) - 1)) ELSE s

strip(s) == rstrip(lstrip(s))

\* ------------------------------------------------------------ request pool

TitleInputs == {<<>>, <<" ", "\t">>, <<"a">>, <<" ", "b", " ">>}

Times == 0 .. (MaxTime + 1)

\* The JSON values a request body may carry for a field; None is JSON null.
JsonValues(f) ==
    CASE f = "title"       -> {None} \cup {Some(t) : t \in TitleInputs}
      [] f = "description" -> {None, Some("d")}
      [] f = "status"      -> {None, Some("pending"), Some("completed"), Some("archived")}
      [] f = "priority"    -> {None, Some("medium"), Some("high")}
      [] f = "due_date"    -> {None} \cup {Some(t) : t \in Times}
      [] f = "assigned_to" -> {None, Some("u")}

\* The JSON objects over a set of keys: each key is carried or left out.
RECURSIVE Bodies(_)
Bodies(keys) ==
    IF keys = {} THEN {<<>>}
    ELSE LET f == CHOOSE k \in keys : TRUE
             rest == Bodies(keys \ {f})
         IN  rest \cup {(f :> v) @@ b : b \in rest, v \in JsonValues(f)}

DefaultTitle == Some(<<"a">>)

\* ------------------------------------------------------------------ models.py

\* TaskCreate.validate_title
create_validate_title(v) ==
    IF v = <<>> \/ strip(v) = <<>>
    THEN [ok |-> FALSE, value |-> v]
    ELSE [ok |-> TRUE, value |-> strip(v)]

\* TaskUpdate.validate_title; v is Optional
update_validate_title(v) ==
    IF v # None
    THEN IF v[1] = <<>> \/ strip(v[1]) = <<>>
         THEN [ok |-> FALSE, value |-> v]
         ELSE [ok |-> TRUE, value |-> Some(strip(v[1]))]
    ELSE [ok |-> TRUE, value |-> v]

\* A faulty variant: a due_date equal to now is accepted.
validate_due_date_accepts_now(v, t) ==
    IF v # None /\ v[1] < t
    THEN [ok |-> FALSE, value |-> v]
    ELSE [ok |-> TRUE, value |-> v]

\* validate_due_date of both models; v is Optional, t is datetime.now()
validate_due_date(v, t) ==
    IF v # None /\ v[1] <= t
    THEN [ok |-> FALSE, value |-> v]
    ELSE [ok |-> TRUE, value |-> v]

\* The enum a field is declared with, if any.
EnumOf(f) ==
    CASE f = "status" -> TaskStatus
      [] f = "priority" -> TaskPriority
      [] OTHER -> {}

EnumOk(f, v) == f \in {"status", "priority"} /\ v # None => v[1] \in EnumOf(f)

\* TaskCreate(**body): title is required, title, status and priority are not
\* Optional, status and priority default to pending and medium.
TaskCreate(body, t) ==
    LET given(f) == IF f \in DOMAIN body THEN body[f] ELSE None
        has(f) == f \in DOMAIN body
        title == IF has("title") /\ body["title"] # None
                 THEN create_validate_title(body["title"][1])
                 ELSE [ok |-> FALSE, value |-> <<>>]
        due == validate_due_date(given("due_date"), t)
        ok == /\ title.ok
              /\ due.ok
              /\ \A f \in {"status", "priority"} :
                    has(f) => body[f] # None /\ EnumOk(f, body[f])
    IN  [ok |-> ok,
         title |-> Some(title.value),
         description |-> given("description"),
         status |-> IF has("status") THEN body["status"] ELSE Some("pending"),
         priority |-> IF has("priority") THEN body["priority"] ELSE Some("medium"),
         due_date |-> due.value,
         assigned_to |-> given("assigned_to")]

\* TaskUpdate(**body): every field Optional with default None; fields_set is
\* pydantic's record of the keys the body carried.
TaskUpdate(body, t) ==
    LET given(f) == IF f \in DOMAIN body THEN body[f] ELSE None
        title == IF "title" \in DOMAIN body
                 THEN update_validate_title(body["title"])
                 ELSE [ok |-> TRUE, value |-> None]
        due == IF "due_date" \in DOMAIN body
               THEN validate_due_date(body["due_date"], t)
               ELSE [ok |-> TRUE, value |-> None]
        ok == /\ title.ok
              /\ due.ok
              /\ \A f \in DOMAIN body : EnumOk(f, body[f])
    IN  [ok |-> ok,
         fields_set |-> DOMAIN body,
         title |-> title.value,
         description |-> given("description"),
         status |-> given("status"),
         priority |-> given("priority"),
         due_date |-> due.value,
         assigned_to |-> given("assigned_to")]

\* ------------------------------------------------------------------ the store

Max(S) == CHOOSE x \in S : \A y \in S : y <= x

\* The rowid SQLite gives an inserted row of a table whose key is a plain
\* INTEGER PRIMARY KEY (class Task declares no AUTOINCREMENT): one more than
\* the largest key present, 1 for an empty table.
NextId(st) == IF DOMAIN st = {} THEN 1 ELSE Max(DOMAIN st) + 1

\* The rows in the store's default order, by rowid.
RECURSIVE RowsOf(_, _)
RowsOf(st, ids) ==
    IF ids = {} THEN <<>>
    ELSE LET m == Max(ids) IN Append(RowsOf(st, ids \ {m}), st[m])

Rows(st) == RowsOf(st, DOMAIN st)

\* ------------------------------------------------------------------ crud.py

\* Task.model_validate(task): created_at by default_factory, updated_at None.
NewTask(task, id, t) ==
    [id |-> id,
     title |-> task.title,
     description |-> task.description,
     status |-> task.status,
     priority |-> task.priority,
     created_at |-> Some(t),
     updated_at |-> None,
     due_date |-> task.due_date,
     assigned_to |-> task.assigned_to]

\* create_task: add, commit, refresh.
create_task(st, task, t) ==
    LET id == NextId(st)
        row == NewTask(task, id, t)
    IN  [store |-> [i \in DOMAIN st \cup {id} |-> IF i = id THEN row ELSE st[i]],
         result |-> Some(row),
         raised |-> FALSE,
         committed |-> TRUE]

\* A faulty variant: the select has no where clause.
get_task_any_row(st, task_id) ==
    IF DOMAIN st = {} THEN None ELSE Some(st[Max(DOMAIN st)])

\* get_task: the first row with that id, or None.
get_task(st, task_id) ==
    IF task_id \in DOMAIN st THEN Some(st[task_id]) ELSE None

\* A faulty variant: dict() without exclude_unset: every field, set or not.
update_data_with_unset(task_update) ==
    [f \in InputFields |-> task_update[f]]

\* A faulty variant: dict(exclude_none=True): the fields given as null are dropped.
update_data_exclude_none(task_update) ==
    [f \in {g \in task_update.fields_set : task_update[g] # None} |-> task_update[f]]

\* task_update.dict(exclude_unset=True)
update_data(task_update) ==
    [f \in task_update.fields_set |-> task_update[f]]

\* update_data["updated_at"] = now; setattr for each item.
apply_update(obj, data, t) ==
    [c \in DOMAIN obj |->
        IF c = "updated_at" THEN Some(t)
        ELSE IF c \in DOMAIN data THEN data[c]
        ELSE obj[c]]

\* session.commit() of a modified object: the unit of work writes the
\* attributes whose value differs from the one loaded, at the row's key; a
\* NULL in a NOT NULL column fails the statement and nothing is written.
flush(st, loaded, obj) ==
    LET changed == {c \in Columns : obj[c] # loaded[c]}
        id == loaded.id
    IN  IF changed = {} THEN [store |-> st, raised |-> FALSE]
        ELSE IF id \notin DOMAIN st THEN [store |-> st, raised |-> TRUE]
        ELSE IF \E c \in changed \cap NotNullColumns : obj[c] = None
        THEN [store |-> st, raised |-> TRUE]
        ELSE [store |-> [st EXCEPT ![id] =
                            [c \in DOMAIN @ |-> IF c \in changed THEN obj[c] ELSE @[c]]],
              raised |-> FALSE]

\* A faulty variant: no test of update_data before the write.
update_task_always_writes(st, task_id, task_update, t) ==
    LET db_task == get_task(st, task_id)
        data == update_data(task_update)
    IN  IF db_task = None
        THEN [store |-> st, result |-> None, raised |-> FALSE, committed |-> FALSE]
        ELSE LET obj == apply_update(db_task[1], data, t)
                 w == flush(st, db_task[1], obj)
             IN  [store |-> w.store,
                  result |-> IF w.raised THEN None ELSE Some(w.store[task_id]),
                  raised |-> w.raised,
                  committed |-> ~w.raised]

\* update_task on one session with nothing interleaved.
update_task(st, task_id, task_update, t) ==
    LET db_task == get_task(st, task_id)
        data == update_data(task_update)
    IN  IF db_task = None
        THEN [store |-> st, result |-> None, raised |-> FALSE, committed |-> FALSE]
        ELSE IF DOMAIN data = {}
        THEN [store |-> st, result |-> db_task, raised |-> FALSE, committed |-> FALSE]
        ELSE LET obj == apply_update(db_task[1], data, t)
                 w == flush(st, db_task[1], obj)
             IN  [store |-> w.store,
                  result |-> IF w.raised THEN None ELSE Some(w.store[task_id]),
                  raised |-> w.raised,
                  committed |-> ~w.raised]

\* delete_task
delete_task(st, task_id) ==
    IF get_task(st, task_id) = None
    THEN [store |-> st, result |-> FALSE, committed |-> FALSE]
    ELSE [store |-> [i \in DOMAIN st \ {task_id} |-> st[i]],
          result |-> TRUE, committed |-> TRUE]

\* The where clauses get_tasks adds for the filters that are given.
Matches(row, status, priority) ==
    /\ status # None => row.status = status
    /\ priority # None => row.priority = priority

RECURSIVE Where(_, _, _)
Where(rows, status, priority) ==
    IF rows = <<>> THEN <<>>
    ELSE IF Matches(Head(rows), status, priority)
         THEN <<Head(rows)>> \o Where(Tail(rows), status, priority)
         ELSE Where(Tail(rows), status, priority)

\* statement.offset(skip).limit(limit)
OffsetLimit(rows, skip, limit) ==
    SubSeq(rows, skip + 1, IF skip + limit < Len(rows) THEN skip + limit ELSE Len(rows))

\* A faulty variant: the total is the length of the page.
get_tasks_counts_page(st, skip, limit, status, priority) ==
    LET tasks == OffsetLimit(Where(Rows(st), status, priority), skip, limit)
    IN  [tasks |-> tasks, total |-> Len(tasks)]

\* get_tasks: the count statement and the page statement carry the same
\* where clauses; only the page statement is cut by offset and limit.
get_tasks(st, skip, limit, status, priority) ==
    LET total == Len(Where(Rows(st), status, priority))
        tasks == OffsetLimit(Where(Rows(st), status, priority), skip, limit)
    IN  [tasks |-> tasks, total |-> total]

\* ------------------------------------------------------------------ main.py

TaskIds == 1 .. MaxTasks

\* What a handler does: the store it leaves, the status code and the body of
\* its response, and whether it committed.
Outcome(st, code, body, committed) ==
    [store |-> st, code |-> code, body |-> body, committed |-> committed]

\* POST /tasks
create_task_handler(st, body, t) ==
    LET task == TaskCreate(body, t) IN
    IF ~task.ok THEN Outcome(st, 422, None, FALSE)
    ELSE LET r == create_task(st, task, t)
         IN  Outcome(r.store, 201, r.result, r.committed)

\* GET /tasks/{task_id}
read_task_handler(st, task_id) ==
    LET task == get_task(st, task_id) IN
    IF task = None THEN Outcome(st, 404, None, FALSE)
    ELSE Outcome(st, 200, task, FALSE)

\* PUT /tasks/{task_id}; an exception of the session is a 500 response
update_task_handler(st, task_id, body, t) ==
    LET task_update == TaskUpdate(body, t) IN
    IF ~task_update.ok THEN Outcome(st, 422, None, FALSE)
    ELSE LET r == update_task(st, task_id, task_update, t) IN
         IF r.raised THEN Outcome(r.store, 500, None, FALSE)
         ELSE IF r.result = None THEN Outcome(r.store, 404, None, r.committed)
         ELSE Outcome(r.store, 200, r.result, r.committed)

\* DELETE /tasks/{task_id}
delete_task_handler(st, task_id) ==
    LET r == delete_task(st, task_id) IN
    IF ~r.result THEN Outcome(r.store, 404, None, r.committed)
    ELSE Outcome(r.store, 200, None, r.committed)

\* GET /tasks and the two filtering routes: TaskListResponse
read_tasks_handler(st, skip, limit, status, priority) ==
    LET r == get_tasks(st, skip, limit, status, priority) IN
    [tasks |-> r.tasks, total |-> r.total, skip |-> skip, limit |-> limit]

\* ------------------------------------------------------------------ requests

\* The summary kept of a request: the operation, the status code, whether it
\* committed, whether its body gave null for a field of the task that held a
\* value, and for a list its total and the length of its page.
Summary(op, code, committed, nulled, total, count) ==
    [op |-> op, code |-> code, committed |-> committed, nulled |-> nulled,
     total |-> total, count |-> count]

Nulled(task_id, body) ==
    /\ task_id \in DOMAIN store
    /\ \E f \in DOMAIN body : body[f] = None /\ store[task_id][f] # None

\* The request bodies of one behaviour carry the fields in focus; a create
\* body carries the required title besides.
FocusSets ==
    {{"title", "due_date"}, {"status", "priority"}, {"description", "assigned_to"}}

CreateBodies ==
    IF "title" \in focus THEN Bodies(focus)
    ELSE {("title" :> DefaultTitle) @@ b : b \in Bodies(focus)}

UpdateBodies == Bodies(focus)

Skips == 0 .. 1

Limits == 1 .. 2

StatusFilters == {Some("completed")}

PriorityFilters == {Some("high")}

\* The history of deletions is kept in the behaviours whose requests vary no
\* field.
KeepsHistory == focus = {}

CreateTask(body) ==
    LET r == create_task_handler(store, body, now) IN
    /\ r.code = 201 => Cardinality(DOMAIN store) < MaxTasks /\ NextId(store) <= MaxTasks
    /\ store' = r.store
    /\ last' = Summary("create", r.code, r.committed, FALSE, 0, 0)
    /\ UNCHANGED <<now, deleted, focus, sess, commits>>

ReadTask(task_id) ==
    LET r == read_task_handler(store, task_id) IN
    /\ store' = r.store
    /\ last' = Summary("get", r.code, r.committed, FALSE, 0, 0)
    /\ UNCHANGED <<now, deleted, focus, sess, commits>>

UpdateTask(task_id, body) ==
    LET r == update_task_handler(store, task_id, body, now) IN
    /\ store' = r.store
    /\ last' = Summary("update", r.code, r.committed, Nulled(task_id, body), 0, 0)
    /\ UNCHANGED <<now, deleted, focus, sess, commits>>

DeleteTask(task_id) ==
    LET r == delete_task_handler(store, task_id) IN
    /\ store' = r.store
    /\ last' = Summary("delete", r.code, r.committed, FALSE, 0, 0)
    /\ deleted' = IF KeepsHistory /\ r.code = 200 THEN deleted \cup {task_id} ELSE deleted
    /\ UNCHANGED <<now, focus, sess, commits>>

ReadTasks(skip, limit, status, priority) ==
    LET r == read_tasks_handler(store, skip, limit, status, priority) IN
    /\ last' = Summary("list", 200, FALSE, FALSE, r.total, Len(r.tasks))
    /\ UNCHANGED <<store, now, deleted, focus, sess, commits>>

\* The clock advances.
Tick ==
    /\ now < MaxTime
    /\ now' = now + 1
    /\ UNCHANGED <<store, last, deleted, focus, sess, commits>>

Init ==
    /\ store = <<>>
    /\ now = 0
    /\ last = Summary("none", 0, FALSE, FALSE, 0, 0)
    /\ deleted = {}
    /\ focus \in FocusSets
    /\ sess = <<>>
    /\ commits = <<>>

Next ==
    \/ \E body \in CreateBodies : CreateTask(body)
    \/ \E id \in TaskIds : ReadTask(id)
    \/ \E id \in TaskIds, body \in UpdateBodies : UpdateTask(id, body)
    \/ \E id \in TaskIds : DeleteTask(id)
    \/ \E skip \in Skips, limit \in Limits : ReadTasks(skip, limit, None, None)
    \/ \E skip \in Skips, limit \in Limits, status \in StatusFilters :
          ReadTasks(skip, limit, status, None)
    \/ \E skip \in Skips, limit \in Limits, priority \in PriorityFilters :
          ReadTasks(skip, limit, None, priority)
    \/ Tick

Spec == Init /\ [][Next]_vars

\* The behaviours whose requests vary no field: every create body is
\* {"title": "a"} and every update body is {}.
InitIds ==
    /\ store = <<>>
    /\ now = 0
    /\ last = Summary("none", 0, FALSE, FALSE, 0, 0)
    /\ deleted = {}
    /\ focus = {}
    /\ sess = <<>>
    /\ commits = <<>>

SpecIds == InitIds /\ [][Next]_vars

\* ------------------------------------------------------ concurrent updates

\* Two PUT requests in flight, each in its own thread with its own session
\* (get_session), stepping through update_task: load, modify, commit.
Reqs == {1, 2}

Idle == [pc |-> "idle", task_id |-> 0, data |-> <<>>, loaded |-> None, obj |-> None,
         code |-> 0]

\* update_task line 57: the request is validated and its session loads the row.
LoadStep(r, task_id, body) ==
    LET task_update == TaskUpdate(body, now)
        db_task == get_task(store, task_id)
    IN  /\ sess[r].pc = "idle"
        /\ task_update.ok
        /\ sess' = [sess EXCEPT ![r] =
                [pc |-> IF db_task = None THEN "done" ELSE "loaded",
                 task_id |-> task_id,
                 data |-> update_data(task_update),
                 loaded |-> db_task,
                 obj |-> db_task,
                 code |-> IF db_task = None THEN 404 ELSE 0]]
        /\ UNCHANGED <<store, now, last, deleted, focus, commits>>

\* update_task lines 61-65: the attributes of the loaded object are set.
ModifyStep(r) ==
    /\ sess[r].pc = "loaded"
    /\ sess' = [sess EXCEPT ![r] =
            IF DOMAIN sess[r].data = {}
            THEN [@ EXCEPT !.pc = "done", !.code = 200]
            ELSE [@ EXCEPT !.pc = "modified",
                           !.obj = Some(apply_update(sess[r].loaded[1], sess[r].data, now))]]
    /\ UNCHANGED <<store, now, last, deleted, focus, commits>>

\* update_task lines 67-69: the session flushes and commits.
CommitStep(r) ==
    LET w == flush(store, sess[r].loaded[1], sess[r].obj[1]) IN
    /\ sess[r].pc = "modified"
    /\ store' = w.store
    /\ sess' = [sess EXCEPT ![r].pc = "done", ![r].code = IF w.raised THEN 500 ELSE 200]
    /\ commits' = IF w.raised THEN commits ELSE Append(commits, r)
    /\ UNCHANGED <<now, last, deleted, focus>>

\* One task, as a valid POST leaves it, and no request in flight.
InitConc ==
    /\ focus = {"status", "priority"}
    /\ \E body \in CreateBodies :
          /\ create_task_handler(<<>>, body, 0).code = 201
          /\ store = create_task_handler(<<>>, body, 0).store
    /\ now = 0
    /\ last = Summary("none", 0, FALSE, FALSE, 0, 0)
    /\ deleted = {}
    /\ sess = [r \in Reqs |-> Idle]
    /\ commits = <<>>

NextConc ==
    \/ \E r \in Reqs, id \in DOMAIN store, body \in UpdateBodies : LoadStep(r, id, body)
    \/ \E r \in Reqs : ModifyStep(r)
    \/ \E r \in Reqs : CommitStep(r)
    \/ Tick

SpecConc == InitConc /\ [][NextConc]_vars

\* ------------------------------------------------------------------ claims

\* C9: two updates of the same task that both commit are last-write-wins:
\* every field both supplied ends with the value of the one that committed
\* last, also when that value is the one it had loaded.
C9_LastWriteWins ==
    (/\ \A r \in Reqs : sess[r].pc = "done" /\ sess[r].code = 200
     /\ Len(commits) = 2
     /\ sess[1].task_id = sess[2].task_id)
    => \A f \in DOMAIN sess[1].data \cap DOMAIN sess[2].data :
          store[sess[1].task_id][f] = sess[commits[2]].data[f]

\* The ids a request may name that are not in the store.
AbsentIds == (0 .. (MaxTasks + 1)) \ DOMAIN store

\* The update bodies that pass validation now.
ValidUpdateBodies == {b \in UpdateBodies : TaskUpdate(b, now).ok}

\* Every row but the one with this id is as it was, and no row came or went.
OthersUnchanged(st, task_id) ==
    /\ DOMAIN st = DOMAIN store
    /\ \A i \in DOMAIN store \ {task_id} : st[i] = store[i]

\* The value a body supplies for a field, with a title trimmed.
Supplied(body, f) ==
    IF f = "title" /\ body[f] # None THEN Some(strip(body[f][1])) ELSE body[f]

AllWhitespace(t) == \A i \in 1 .. Len(t) : t[i] \in Whitespace

\* C1, as claimed: an update of an existing task that supplies a field sets
\* every supplied field to the supplied value and updated_at to now, and
\* changes nothing else.
C1_UpdateSetsEverySuppliedField ==
    \A id \in DOMAIN store, body \in ValidUpdateBodies \ {<<>>} :
        LET r == update_task(store, id, TaskUpdate(body, now), now) IN
        /\ \A f \in DOMAIN body : r.store[id][f] = Supplied(body, f)
        /\ r.store[id].updated_at = Some(now)
        /\ \A c \in (Columns \cup {"id"}) \ (DOMAIN body \cup {"updated_at"}) :
              r.store[id][c] = store[id][c]
        /\ OthersUnchanged(r.store, id)

\* C1, amended: when none of title, status and priority is supplied as null,
\* the update answers 200, sets every supplied field to the supplied value
\* (a title trimmed) and updated_at to now and changes nothing else; when
\* one of them is supplied as null the update fails with a store error
\* (500) and the store is unchanged.
C1_UpdateFrame ==
    \A id \in DOMAIN store, body \in ValidUpdateBodies \ {<<>>} :
        LET r == update_task_handler(store, id, body, now) IN
        IF \E f \in DOMAIN body \cap {"title", "status", "priority"} : body[f] = None
        THEN r.code = 500 /\ r.store = store
        ELSE /\ r.code = 200
             /\ r.body = Some(r.store[id])
             /\ \A f \in DOMAIN body : r.store[id][f] = Supplied(body, f)
             /\ r.store[id].updated_at = Some(now)
             /\ \A c \in (Columns \cup {"id"}) \ (DOMAIN body \cup {"updated_at"}) :
                   r.store[id][c] = store[id][c]
             /\ OthersUnchanged(r.store, id)

\* An update committed while another task was in the store.
C1_Witness ==
    /\ last.op = "update" /\ last.code = 200 /\ last.committed
    /\ Cardinality(DOMAIN store) = 2
    /\ \E i \in DOMAIN store : store[i].updated_at = Some(now) /\ store[i].created_at # Some(now)

\* C2: a create with valid input assigns an id that no task in the store has
\* and that no task ever had, deleted tasks included, with created_at set
\* and updated_at absent.
C2_CreateAssignsUnusedId ==
    [][\A body \in CreateBodies :
        (CreateTask(body) /\ last'.code = 201) =>
            /\ Cardinality(DOMAIN store' \ DOMAIN store) = 1
            /\ \A i \in DOMAIN store' \ DOMAIN store :
                  /\ i \notin deleted
                  /\ store'[i].created_at = Some(now)
                  /\ store'[i].updated_at = None]_vars

\* C3: for an id that is not in the store, get and update return None and
\* delete returns False, none raises, none changes the store, and each
\* handler answers 404.
C3_AbsentIdIsNotFound ==
    \A id \in AbsentIds :
        /\ get_task(store, id) = None
        /\ read_task_handler(store, id).code = 404
        /\ read_task_handler(store, id).store = store
        /\ delete_task(store, id).result = FALSE
        /\ delete_task(store, id).store = store
        /\ delete_task_handler(store, id).code = 404
        /\ \A body \in ValidUpdateBodies :
              LET r == update_task(store, id, TaskUpdate(body, now), now) IN
              /\ r.result = None
              /\ ~r.raised
              /\ r.store = store
              /\ update_task_handler(store, id, body, now).code = 404

\* An update of an id that is not among the tasks of the store answered 404.
C3_Witness ==
    /\ last.op = "update" /\ last.code = 404
    /\ DOMAIN store # {}

\* C4: the total of a list is the number of tasks that match the filters
\* given, whatever skip and limit are, and not the size of the page.
C4_TotalCountsMatches ==
    \A skip \in 0 .. (MaxTasks + 1), limit \in 1 .. (MaxTasks + 1),
       status \in {None} \cup {Some(x) : x \in TaskStatus},
       priority \in {None} \cup {Some(x) : x \in TaskPriority} :
        LET r == read_tasks_handler(store, skip, limit, status, priority)
            matching == {i \in DOMAIN store :
                            /\ status = None \/ store[i].status = status
                            /\ priority = None \/ store[i].priority = priority}
        IN  /\ r.total = Cardinality(matching)
            /\ \A i \in 1 .. Len(r.tasks) : r.tasks[i].id \in matching
            /\ Len(r.tasks) <= limit

\* A list answered a page shorter than its total.
C4_Witness ==
    last.op = "list" /\ last.total = 2 /\ last.count = 1

\* C5: an update of an existing task with an empty body returns the task
\* with every field as it was, updated_at included, and writes nothing.
C5_EmptyUpdateIsNoOp ==
    \A id \in DOMAIN store :
        LET r == update_task(store, id, TaskUpdate(<<>>, now), now) IN
        /\ r.result = Some(store[id])
        /\ r.store = store
        /\ ~r.committed
        /\ ~r.raised
        /\ update_task_handler(store, id, <<>>, now).code = 200

\* An update answered 200 without committing, on a task updated before.
C5_Witness ==
    /\ last.op = "update" /\ last.code = 200 /\ ~last.committed
    /\ \E i \in DOMAIN store : store[i].updated_at # None /\ store[i].updated_at # Some(now)

BadTitle(body) ==
    "title" \in DOMAIN body /\ body["title"] # None /\ AllWhitespace(body["title"][1])

BadDueDate(body) ==
    "due_date" \in DOMAIN body /\ body["due_date"] # None /\ body["due_date"][1] <= now

\* C7: a create or an update whose title is empty or whitespace only, or
\* whose due_date is not after now, is answered 422 with the store as it
\* was; a title that is accepted is stored trimmed.
C7_InvalidInputNeverPersists ==
    /\ \A body \in CreateBodies :
          LET r == create_task_handler(store, body, now) IN
          IF BadTitle(body) \/ BadDueDate(body)
          THEN r.code = 422 /\ r.store = store /\ ~r.committed
          ELSE r.code = 201 =>
                 /\ r.body[1].title = Some(strip(body["title"][1]))
                 /\ r.store[r.body[1].id] = r.body[1]
    /\ \A id \in TaskIds, body \in UpdateBodies :
          LET r == update_task_handler(store, id, body, now) IN
          IF BadTitle(body) \/ BadDueDate(body)
          THEN r.code = 422 /\ r.store = store /\ ~r.committed
          ELSE (r.code = 200 /\ "title" \in DOMAIN body) =>
                 r.store[id].title = Some(strip(body["title"][1]))

\* An update with a title or a due_date was answered 422 with a task stored.
C7_Witness ==
    /\ focus = {"title", "due_date"}
    /\ last.op = "update" /\ last.code = 422
    /\ DOMAIN store # {}

\* C8: every stored task has a title that is neither empty nor whitespace
\* only, a status among the four statuses and a priority among the four
\* priorities.
C8_StoredTasksAreValid ==
    \A i \in DOMAIN store :
        /\ store[i].title # None
        /\ ~AllWhitespace(store[i].title[1])
        /\ store[i].status \in {Some(x) : x \in TaskStatus}
        /\ store[i].priority \in {Some(x) : x \in TaskPriority}

\* An update that gave null for a field that held a value was refused by the
\* store.
C8_Witness ==
    /\ last.op = "update" /\ last.nulled /\ last.code = 500
    /\ DOMAIN store # {}

OptionalFields == {"description", "due_date", "assigned_to"}

Without(body, f) == [g \in DOMAIN body \ {f} |-> body[g]]

\* C10, as claimed: an update that supplies description, due_date or
\* assigned_to as null leaves the store as the same update without that
\* field does.
C10_NullIsLikeOmitted ==
    \A id \in DOMAIN store, body \in ValidUpdateBodies :
        \A f \in DOMAIN body \cap OptionalFields :
            body[f] = None =>
                update_task(store, id, TaskUpdate(body, now), now).store
                    = update_task(store, id, TaskUpdate(Without(body, f), now), now).store

\* C10, amended: an update that supplies description, due_date or
\* assigned_to as null and is answered 200 stores null in that field and
\* sets updated_at to now; the same update without the field keeps the
\* field's value.
C10_NullClearsField ==
    \A id \in DOMAIN store, body \in ValidUpdateBodies :
        \A f \in DOMAIN body \cap OptionalFields :
            LET r == update_task_handler(store, id, body, now)
                o == update_task_handler(store, id, Without(body, f), now)
            IN  (body[f] = None /\ r.code = 200) =>
                    /\ r.store[id][f] = None
                    /\ r.store[id].updated_at = Some(now)
                    /\ r.committed
                    /\ o.code = 200 /\ o.store[id][f] = store[id][f]

\* An update that gave null for a description or an assigned_to that held a
\* value committed.
C10_Witness ==
    /\ focus = {"description", "assigned_to"}
    /\ last.op = "update" /\ last.nulled /\ last.code = 200 /\ last.committed
    /\ \E i \in DOMAIN store :
          /\ store[i].updated_at = Some(now)
          /\ store[i].description = None \/ store[i].assigned_to = None

\* C6: once a delete of an id has succeeded, the id is not in the store in
\* any later state: get and update answer 404 and delete answers 404.
C6_DeletedStaysAbsent ==
    \A id \in deleted :
        /\ id \notin DOMAIN store
        /\ read_task_handler(store, id).code = 404
        /\ delete_task_handler(store, id).code = 404
        /\ \A body \in ValidUpdateBodies : update_task_handler(store, id, body, now).code = 404

====
